---- MODULE Spec2Model ----
(***************************************************************************)
(* Model of the CNC lathe trainer: the G-code parser (services/gcodeParser),*)
(* the interpreter effect of components/Simulator.tsx and the cycle driver  *)
(* of App.tsx (timer, Play, Pause, Reset, emergency stop, tool change).     *)
(*                                                                         *)
(* A source line is modelled after tokenisation, as the sequence of the     *)
(* letter+number words the parser's regular expression matches on it; a     *)
(* blank or comment-only line is the empty sequence.  Coordinates are       *)
(* integers (mm); tool length offsets are kept in tenths of a millimetre.   *)
(* Tool wear and the wear accumulator are kept in 1/100 of a percent, the    *)
(* distance travelled between two animation frames in 1/10 mm, rounded      *)
(* down.                                                                    *)
(* A React render followed by its effects is part of the step of the        *)
(* handler that caused it: every action applies the handler and then runs   *)
(* the Simulator's effects until they change nothing more.                  *)
(***************************************************************************)
EXTENDS Integers, Sequences, FiniteSets, TLC

VARIABLES code, commands, machineState, currentLine, errorMessage, manualSpindle,
          tools, simState, pendingToolChange, lastHandledToolLine, prevPos,
          accumWear, lastOp

vars == <<code, commands, machineState, currentLine, errorMessage, manualSpindle,
          tools, simState, pendingToolChange, lastHandledToolLine, prevPos,
          accumWear, lastOp>>

\* Longest program text, in source lines.
MaxLines == 2

\* Longest source line given to the parser on its own, in words.
MaxWords == 3

VALID_G_CODES ==
  {0, 1, 2, 3, 4, 20, 21, 28, 32, 33, 40, 41, 42, 43, 44, 49, 50,
   70, 71, 72, 73, 74, 75, 76, 90, 91, 96, 97, 98, 99}

\* Home / safe position the interpreter starts every replay from.
HomeX == 100
HomeZ == 50

\* Tool table (constants.ts TOOLS): ids, length offsets and nose radii in
\* 1/10 mm.
ToolIds == {1, 2, 3}
LengthOffset10 == [id \in ToolIds |-> CASE id = 1 -> 55 [] id = 2 -> 30 [] id = 3 -> 82]
NoseRadius10 == [id \in ToolIds |-> CASE id = 1 -> 8 [] id = 2 -> 2 [] id = 3 -> 1]
TOOLS ==
  [id \in ToolIds |->
     [lengthOffset |-> LengthOffset10[id], noseRadius |-> NoseRadius10[id], wear |-> 0]]

\* Stock diameter (mm); cutting contact is detected up to one mm above it.
STOCK_DIAMETER == 80

\* Wear of a worn-out tool: 100 %, in 1/100 %.
WearFull == 10000

\* wearRate 0.2 % per mm travelled: 2/100 % per 1/10 mm.
WearPerTenthMm == 2

\* Hardness factor of the stock material (Steel, 1.0), in tenths.
Hardness10 == 10

\* Accumulated wear is reported once it exceeds 0.5 %.
WearThreshold == 50

----------------------------------------------------------------------------
(* Program texts *)

Word(l, v) == [letter |-> l, value |-> v]

LineComment == << >>
LineG90G01  == <<Word("G", 90), Word("G", 1), Word("X", 50), Word("Z", -10)>>
LineG91     == <<Word("G", 91), Word("X", 0), Word("Z", 0)>>
LineG01XU   == <<Word("G", 1), Word("X", 40), Word("U", 5), Word("W", -2)>>
LineG00     == <<Word("G", 0), Word("X", 40), Word("Z", -30)>>
LineG28U    == <<Word("G", 28), Word("U", 0)>>
LineG28W    == <<Word("G", 28), Word("W", 0)>>
LineG28     == <<Word("G", 28)>>
LineG999    == <<Word("G", 999)>>
LineT0101   == <<Word("T", 101)>>

Lines == {LineComment, LineG90G01, LineG91, LineG01XU, LineG00,
          LineG28U, LineG28W, LineG28, LineG999, LineT0101}

Programs == UNION {[1..n -> Lines] : n \in 0..MaxLines}

\* Turning programs: tool calls and compensated cuts.
LineT3      == <<Word("T", 3)>>
LineG42G01  == <<Word("G", 42), Word("G", 1), Word("X", 40), Word("Z", 0)>>
LineG01Z    == <<Word("G", 1), Word("Z", -20)>>
LineT0      == <<Word("T", 0)>>

TurningLines == {LineT0101, LineT3, LineG42G01, LineG01Z, LineT0}

TurningPrograms == UNION {[1..n -> TurningLines] : n \in 0..MaxLines}

\* Wear programs: a cut into the stock with the spindle on, a tool call and
\* the wear reset command.
LineM03G43G01 ==
  <<Word("M", 3), Word("G", 43), Word("H", 1), Word("G", 1), Word("X", 40), Word("Z", -30)>>
LineM100      == <<Word("M", 100)>>

WearLines == {LineM03G43G01, LineT0101, LineM100}

WearPrograms == UNION {[1..n -> WearLines] : n \in 0..MaxLines}

\* Tool life programs: a cut into the stock with tool 3, a rapid move along
\* the stock, and the wear reset command.
LineT3M03G01 ==
  <<Word("T", 3), Word("M", 3), Word("G", 1), Word("X", 40), Word("Z", -30)>>
LineG00Z     == <<Word("G", 0), Word("Z", 50)>>

ToolLifeLines == {LineT3M03G01, LineG00Z, LineM100}

ToolLifePrograms == UNION {[1..n -> ToolLifeLines] : n \in 0..MaxLines}

\* Wear limit programs: a long cut into the stock (170.8 mm from home), whose
\* wear does not divide 100 %, a tool call and the wear reset command.
LineM03G01Deep == <<Word("M", 3), Word("G", 1), Word("X", 40), Word("Z", -110)>>

WearLimitLines == {LineM03G01Deep, LineT0101, LineM100}

WearLimitPrograms == UNION {[1..n -> WearLimitLines] : n \in 0..MaxLines}

\* Modal programs: spindle speed words, the G50 speed limit, tool length
\* compensation with a matching, an unmatched and a missing H, canned
\* cycles, a cutting move and a tool call.
LineM03S500  == <<Word("M", 3), Word("S", 500)>>
LineG50S2000 == <<Word("G", 50), Word("S", 2000)>>
LineG43H3    == <<Word("G", 43), Word("H", 3)>>
LineG43G43H9 == <<Word("G", 43), Word("G", 43), Word("H", 9)>>
LineG49      == <<Word("G", 49)>>
LineG71      == <<Word("G", 71), Word("U", 2), Word("R", 1)>>
LineG72G76   == <<Word("G", 72), Word("G", 74), Word("G", 75), Word("G", 76)>>
LineG01S800  == <<Word("G", 1), Word("X", 40), Word("Z", -30), Word("S", 800)>>

ModalLines ==
  {LineM03S500, LineG50S2000, LineG43H3, LineG43G43H9, LineG49, LineG71,
   LineG72G76, LineG01S800, LineT0101}

ModalPrograms == UNION {[1..n -> ModalLines] : n \in 0..MaxLines}

\* Parser inputs: one line of any words, at any place among blank lines and
\* one-statement lines.
LineM05 == <<Word("M", 5)>>

ParserWords ==
  {Word("G", 1), Word("M", 3), Word("T", 101), Word("X", 10), Word("X", 20)}

ParserLines == UNION {[1..n -> ParserWords] : n \in 0..MaxWords}

ParserTexts ==
  {<< >>} \cup
  UNION {UNION {{[i \in 1..n |-> IF i = k THEN l ELSE f[i]] :
                    l \in ParserLines, f \in [1..n -> {LineComment, LineM05}]} :
                k \in 1..n} :
         n \in 1..MaxLines}

----------------------------------------------------------------------------
(* Parser *)

NoParams == [k \in {} |-> 0]

SetParam(p, l, v) == [k \in (DOMAIN p) \cup {l} |-> IF k = l THEN v ELSE p[k]]

NewCmd(lineNo) == [type |-> "G", params |-> NoParams, line |-> lineNo]

SetCommand_DropsParams(cmd, l, v) ==
  [type |-> l, code |-> v, params |-> NoParams, line |-> cmd.line]

SetCommand(cmd, l, v) ==
  [type |-> l, code |-> v, params |-> cmd.params, line |-> cmd.line]

\* matches.forEach of one line; the result ends with the final push.
RECURSIVE GroupWords(_, _, _)
GroupWords(ws, currentCmd, hasExplicitType) ==
  IF ws = << >> THEN <<currentCmd>>
  ELSE LET w == Head(ws) IN
    IF w.letter \in {"G", "M", "T"}
    THEN IF hasExplicitType
         THEN <<currentCmd>> \o
              GroupWords(Tail(ws), SetCommand(NewCmd(currentCmd.line), w.letter, w.value), TRUE)
         ELSE GroupWords(Tail(ws), SetCommand(currentCmd, w.letter, w.value), TRUE)
    ELSE GroupWords(Tail(ws),
                    [currentCmd EXCEPT !.params = SetParam(@, w.letter, w.value)],
                    hasExplicitType)

ParseLine(ws, lineNo) ==
  IF ws = << >> THEN << >> ELSE GroupWords(ws, NewCmd(lineNo), FALSE)

RECURSIVE ParseFrom(_, _)
ParseFrom(text, index) ==
  IF index >= Len(text) THEN << >>
  ELSE ParseLine(text[index + 1], index + 1) \o ParseFrom(text, index + 1)

parseGCode_NumbersKeptLines(text) ==
  ParseFrom(SelectSeq(text, LAMBDA ws : ws # << >>), 0)

parseGCode(text) == ParseFrom(text, 0)

----------------------------------------------------------------------------
(* Interpreter fold (Simulator.tsx, interpreter effect) *)

HasCode(cmd) == "code" \in DOMAIN cmd
CodeIs(cmd, n) == HasCode(cmd) /\ cmd.code = n
HasParam(cmd, l) == l \in DOMAIN cmd.params

InitialTemp ==
  [tempX |-> HomeX, tempZ |-> HomeZ, tempS |-> 0, tempTool |-> 1,
   tempSpindleDir |-> "STOP", tempOffset |-> 0, tempRadiusComp |-> "OFF",
   tempPositioning |-> "ABS", tempCoolant |-> "OFF", newPath |-> << >>]

\* code.toString().substring(0, 2) of a positive integer code
RECURSIVE FirstTwoDigits(_)
FirstTwoDigits(n) == IF n >= 100 THEN FirstTwoDigits(n \div 10) ELSE n

ToolIdOf_LastTwoDigits(c) == IF c >= 10 THEN c % 100 ELSE c

ToolIdOf(c) == IF c >= 10 THEN FirstTwoDigits(c) ELSE c

Positioning_G91Ignored(t, cmd) ==
  IF cmd.type = "G" /\ CodeIs(cmd, 90) THEN "ABS"
  ELSE t.tempPositioning

Positioning(t, cmd) ==
  IF cmd.type = "G" /\ CodeIs(cmd, 90) THEN "ABS"
  ELSE IF cmd.type = "G" /\ CodeIs(cmd, 91) THEN "INC"
  ELSE t.tempPositioning

Offset_LessWear(t, cmd, tls) ==
  IF cmd.type = "G" /\ CodeIs(cmd, 43) /\ HasParam(cmd, "H")
  THEN IF cmd.params.H \in DOMAIN tls
       THEN tls[cmd.params.H].lengthOffset - tls[cmd.params.H].wear \div 1000
       ELSE t.tempOffset
  ELSE IF cmd.type = "G" /\ CodeIs(cmd, 49) THEN 0
  ELSE t.tempOffset

Offset_UnmatchedHClears(t, cmd, tls) ==
  IF cmd.type = "G" /\ CodeIs(cmd, 43) /\ HasParam(cmd, "H")
  THEN IF cmd.params.H \in DOMAIN tls THEN tls[cmd.params.H].lengthOffset
       ELSE 0
  ELSE IF cmd.type = "G" /\ CodeIs(cmd, 49) THEN 0
  ELSE t.tempOffset

Offset(t, cmd, tls) ==
  IF cmd.type = "G" /\ CodeIs(cmd, 43) /\ HasParam(cmd, "H")
  THEN IF cmd.params.H \in DOMAIN tls THEN tls[cmd.params.H].lengthOffset
       ELSE t.tempOffset
  ELSE IF cmd.type = "G" /\ CodeIs(cmd, 49) THEN 0
  ELSE t.tempOffset

RadiusComp(t, cmd) ==
  IF cmd.type = "G" /\ CodeIs(cmd, 40) THEN "OFF"
  ELSE IF cmd.type = "G" /\ CodeIs(cmd, 41) THEN "LEFT"
  ELSE IF cmd.type = "G" /\ CodeIs(cmd, 42) THEN "RIGHT"
  ELSE t.tempRadiusComp

Axis_IncrementalWordFirst(cur, cmd, positioning, absLetter, incLetter) ==
  LET a == IF HasParam(cmd, incLetter) THEN cur + cmd.params[incLetter] ELSE cur
  IN IF HasParam(cmd, absLetter)
     THEN IF positioning = "ABS" THEN cmd.params[absLetter]
          ELSE a + cmd.params[absLetter]
     ELSE a

\* One axis: the absolute/incremental word first, then the incremental word.
Axis(cur, cmd, positioning, absLetter, incLetter) ==
  LET a == IF HasParam(cmd, absLetter)
           THEN IF positioning = "ABS" THEN cmd.params[absLetter]
                ELSE cur + cmd.params[absLetter]
           ELSE cur
  IN IF HasParam(cmd, incLetter) THEN a + cmd.params[incLetter] ELSE a

Speed_G50SetsSpeed(t, cmd) ==
  IF HasParam(cmd, "S") THEN cmd.params.S ELSE t.tempS

Speed(t, cmd) ==
  IF HasParam(cmd, "S") /\ ~(cmd.type = "G" /\ CodeIs(cmd, 50))
  THEN cmd.params.S ELSE t.tempS

Tool(t, cmd) ==
  IF cmd.type = "T" /\ HasCode(cmd) /\ cmd.code # 0
  THEN IF ToolIdOf(cmd.code) > 0 THEN ToolIdOf(cmd.code) ELSE t.tempTool
  ELSE t.tempTool

SpindleDir(t, cmd) ==
  IF cmd.type = "M" /\ CodeIs(cmd, 3) THEN "CW"
  ELSE IF cmd.type = "M" /\ CodeIs(cmd, 4) THEN "CCW"
  ELSE IF cmd.type = "M" /\ CodeIs(cmd, 5) THEN "STOP"
  ELSE t.tempSpindleDir

Coolant(t, cmd) ==
  IF cmd.type = "M" /\ CodeIs(cmd, 7) THEN "MIST"
  ELSE IF cmd.type = "M" /\ CodeIs(cmd, 8) THEN "FLOOD"
  ELSE IF cmd.type = "M" /\ CodeIs(cmd, 9) THEN "OFF"
  ELSE t.tempCoolant

CutCodes == {1, 2, 3, 32, 33, 71, 72, 74, 75, 76}
PathCodes == {0, 1, 2, 3, 32, 33}

MoveType(cmd) ==
  IF cmd.type = "G" /\ HasCode(cmd) /\ cmd.code \in CutCodes THEN "cut" ELSE "rapid"

\* [0,1,2,3,32,33].includes(cmd.code || -1): a code of 0 is falsy and reads as -1
CodeOrMinusOne(cmd) == IF HasCode(cmd) /\ cmd.code # 0 THEN cmd.code ELSE -1

PushesPoint_CutTypeCodes(cmd) ==
  cmd.type = "G" /\ (CodeOrMinusOne(cmd) \in PathCodes \/ CodeOrMinusOne(cmd) \in CutCodes)

PushesPoint(cmd) == cmd.type = "G" /\ CodeOrMinusOne(cmd) \in PathCodes

\* Body of the interpreter loop for one command that passed validation.
ExecCmd(t, cmd, tls) ==
  LET positioning == Positioning(t, cmd)
      x == Axis(t.tempX, cmd, positioning, "X", "U")
      z == Axis(t.tempZ, cmd, positioning, "Z", "W")
  IN [tempX |-> x, tempZ |-> z, tempS |-> Speed(t, cmd), tempTool |-> Tool(t, cmd),
      tempSpindleDir |-> SpindleDir(t, cmd), tempOffset |-> Offset(t, cmd, tls),
      tempRadiusComp |-> RadiusComp(t, cmd), tempPositioning |-> positioning,
      tempCoolant |-> Coolant(t, cmd),
      newPath |-> IF PushesPoint(cmd)
                  THEN Append(t.newPath, [x |-> x, z |-> z, type |-> MoveType(cmd)])
                  ELSE t.newPath]

Invalid(cmd) == cmd.type = "G" /\ HasCode(cmd) /\ cmd.code \notin VALID_G_CODES

\* onError(`Error Sintaxis: G${cmd.code} no soportado en linea ${cmd.line}`)
OnErrorMessage_Index(cmd, i) == [kind |-> "syntax", code |-> cmd.code, line |-> i + 1]

OnErrorMessage(cmd, i) == [kind |-> "syntax", code |-> cmd.code, line |-> cmd.line]

\* for (i = 0; i <= currentLine && i < commands.length; i++)
RECURSIVE Fold(_, _, _, _, _)
Fold(cmds, i, cursor, t, tls) ==
  IF ~(i <= cursor /\ i < Len(cmds)) THEN [error |-> FALSE, temp |-> t]
  ELSE IF Invalid(cmds[i + 1])
       THEN [error |-> TRUE, msg |-> OnErrorMessage(cmds[i + 1], i), temp |-> t]
       ELSE Fold(cmds, i + 1, cursor, ExecCmd(t, cmds[i + 1], tls), tls)

Replay(cmds, cursor, tls) == Fold(cmds, 0, cursor, InitialTemp, tls)

NewState(t) ==
  [x |-> t.tempX, z |-> t.tempZ, spindleSpeed |-> t.tempS,
   spindleDirection |-> t.tempSpindleDir, activeToolOffset |-> t.tempOffset,
   toolRadiusComp |-> t.tempRadiusComp, positioningMode |-> t.tempPositioning,
   path |-> t.newPath, tool |-> t.tempTool, feedRate |-> 0, coolant |-> t.tempCoolant]

IdleState_ManualSpeedKept(manual) ==
  [x |-> HomeX, z |-> HomeZ, feedRate |-> 0,
   spindleSpeed |-> manual.speed,
   spindleDirection |-> manual.dir,
   tool |-> 1, activeToolOffset |-> 0, toolRadiusComp |-> "OFF",
   positioningMode |-> "ABS", coolant |-> "OFF", path |-> << >>]

IdleState(manual) ==
  [x |-> HomeX, z |-> HomeZ, feedRate |-> 0,
   spindleSpeed |-> IF manual.dir # "STOP" THEN manual.speed ELSE 0,
   spindleDirection |-> manual.dir,
   tool |-> 1, activeToolOffset |-> 0, toolRadiusComp |-> "OFF",
   positioningMode |-> "ABS", coolant |-> "OFF", path |-> << >>]

----------------------------------------------------------------------------
(* Driver (App.tsx) and Simulator effects.  Handlers take the values of the *)
(* render they were created in (c) and the state being updated (r).         *)

NoError == [kind |-> "none"]
EmergencyStopMsg == [kind |-> "estop"]

Cur ==
  [machineState |-> machineState, currentLine |-> currentLine,
   errorMessage |-> errorMessage, manualSpindle |-> manualSpindle,
   tools |-> tools, simState |-> simState,
   pendingToolChange |-> pendingToolChange,
   lastHandledToolLine |-> lastHandledToolLine,
   prevPos |-> prevPos, accumWear |-> accumWear]

handlePlay_NoAlarmGuard(c, r) ==
  IF c.machineState \in {"IDLE", "PAUSED", "ALARM"}
  THEN [r EXCEPT !.currentLine = IF c.currentLine >= Len(commands) - 1 THEN 0 ELSE @,
                 !.machineState = "RUNNING"]
  ELSE r

handlePlay(c, r) ==
  IF c.machineState = "ALARM" THEN r
  ELSE IF c.machineState \in {"IDLE", "PAUSED"}
       THEN [r EXCEPT !.currentLine = IF c.currentLine >= Len(commands) - 1 THEN 0 ELSE @,
                      !.machineState = "RUNNING"]
       ELSE r

handlePause(c, r) ==
  IF c.machineState # "ALARM" THEN [r EXCEPT !.machineState = "PAUSED"] ELSE r

handleReset_KeepsError(r) ==
  [r EXCEPT !.machineState = "IDLE", !.currentLine = 0]

handleReset(r) ==
  [r EXCEPT !.machineState = "IDLE", !.currentLine = 0, !.errorMessage = NoError]

handleAlarm(c, r, msg) ==
  IF c.machineState # "ALARM"
  THEN [r EXCEPT !.machineState = "ALARM", !.errorMessage = msg,
                 !.manualSpindle = [dir |-> "STOP", speed |-> 0]]
  ELSE r

updateToolWear_NoUpperLimit(tls, toolId, wearAmount) ==
  [id \in DOMAIN tls |->
     IF id = toolId
     THEN [tls[id] EXCEPT !.wear = IF wearAmount < 0 THEN 0 ELSE wearAmount]
     ELSE tls[id]]

updateToolWear(tls, toolId, wearAmount) ==
  [id \in DOMAIN tls |->
     IF id = toolId
     THEN [tls[id] EXCEPT !.wear = IF wearAmount > WearFull THEN WearFull
                                   ELSE IF wearAmount < 0 THEN 0 ELSE wearAmount]
     ELSE tls[id]]

\* setInterval callback of the timer effect
TimerTick(r) ==
  IF r.currentLine >= Len(commands) - 1
  THEN [r EXCEPT !.machineState = "IDLE"]
  ELSE [r EXCEPT !.currentLine = @ + 1]

\* Simulator: reset / rewind effect for the tool change tracking
ResetRewindEffect(c, r) ==
  IF c.machineState = "IDLE" \/ c.currentLine < r.lastHandledToolLine
  THEN [r EXCEPT !.pendingToolChange = << >>, !.lastHandledToolLine = -1]
  ELSE r

ToolChangeRequest_EveryRun(c, r) ==
  IF /\ c.currentLine < Len(commands)
     /\ commands[c.currentLine + 1].type = "T"
     /\ c.machineState = "RUNNING"
  THEN [handlePause(c, r) EXCEPT !.pendingToolChange = <<commands[c.currentLine + 1]>>,
                                 !.lastHandledToolLine = c.currentLine]
  ELSE r

\* Simulator: tool change request at the current line
ToolChangeRequest(c, r) ==
  IF /\ c.currentLine < Len(commands)
     /\ commands[c.currentLine + 1].type = "T"
     /\ c.machineState = "RUNNING"
     /\ r.lastHandledToolLine # c.currentLine
  THEN [handlePause(c, r) EXCEPT !.pendingToolChange = <<commands[c.currentLine + 1]>>,
                                 !.lastHandledToolLine = c.currentLine]
  ELSE r

\* Simulator: M100 at the current line resets the wear of simState.tool
WearResetCommand(c, r) ==
  IF /\ c.currentLine < Len(commands)
     /\ commands[c.currentLine + 1].type = "M"
     /\ CodeIs(commands[c.currentLine + 1], 100)
     /\ c.machineState = "RUNNING"
  THEN [r EXCEPT !.tools = updateToolWear(@, c.simState.tool, 0)]
  ELSE r

FoldAndPublish_PublishesPartial(c, r) ==
  LET res == Replay(commands, c.currentLine, c.tools)
  IN IF res.error
     THEN [handleAlarm(c, r, res.msg) EXCEPT !.simState = NewState(res.temp)]
     ELSE [r EXCEPT !.simState = NewState(res.temp)]

\* Simulator: end of the interpreter effect, onError or publish
FoldAndPublish(c, r) ==
  LET res == Replay(commands, c.currentLine, c.tools)
  IN IF res.error
     THEN handleAlarm(c, r, res.msg)
     ELSE [r EXCEPT !.simState = NewState(res.temp)]

InterpreterEffect(c, r) ==
  IF c.machineState = "ALARM" THEN r
  ELSE IF c.machineState = "IDLE"
       THEN [r EXCEPT !.simState = IdleState(c.manualSpindle),
                      !.prevPos = [x |-> HomeX, z |-> HomeZ]]
  ELSE IF Len(commands) = 0 THEN r
  ELSE FoldAndPublish(c, WearResetCommand(c, ToolChangeRequest(c, r)))

\* The effects of one render, in declaration order.
Effects(c) == InterpreterEffect(c, ResetRewindEffect(c, c))

\* Renders repeat while the effects change the state.  (Each render's state
\* is bound as a value, so that it is computed once.)
Settle(r) ==
  LET Third(a)  == {IF b = a THEN a ELSE Effects(b) : b \in {Effects(a)}}
      Second(v) == UNION {IF a = v THEN {v} ELSE Third(a) : a \in {Effects(v)}}
  IN CHOOSE s \in UNION {Second(v) : v \in {r}} : TRUE

Commit(r, op) ==
  \E v \in {r} :
    /\ machineState' = v.machineState
    /\ currentLine' = v.currentLine
    /\ errorMessage' = v.errorMessage
    /\ manualSpindle' = v.manualSpindle
    /\ tools' = v.tools
    /\ simState' = v.simState
    /\ pendingToolChange' = v.pendingToolChange
    /\ lastHandledToolLine' = v.lastHandledToolLine
    /\ prevPos' = v.prevPos
    /\ accumWear' = v.accumWear
    /\ lastOp' = op
    /\ UNCHANGED <<code, commands>>

InitWith(texts) ==
  /\ code \in texts
  /\ commands = parseGCode(code)
  /\ machineState = "IDLE"
  /\ currentLine = 0
  /\ errorMessage = NoError
  /\ manualSpindle = [dir |-> "STOP", speed |-> 1000]
  /\ tools = TOOLS
  /\ simState = IdleState([dir |-> "STOP", speed |-> 1000])
  /\ pendingToolChange = << >>
  /\ lastHandledToolLine = -1
  /\ prevPos = [x |-> HomeX, z |-> HomeZ]
  /\ accumWear = 0
  /\ lastOp = "mount"

Init == InitWith(Programs)

Tick ==
  /\ machineState = "RUNNING"
  /\ Commit(Settle(TimerTick(Cur)), "tick")

Play == Commit(Settle(handlePlay(Cur, Cur)), "play")

Pause == Commit(Settle(handlePause(Cur, Cur)), "pause")

Reset == Commit(Settle(handleReset(Cur)), "reset")

EmergencyStop == Commit(Settle(handleAlarm(Cur, Cur, EmergencyStopMsg)), "estop")

handleConfirmTool ==
  /\ pendingToolChange # << >>
  /\ Commit(Settle(handlePlay(Cur, [Cur EXCEPT !.pendingToolChange = << >>])), "confirm")

SetManualSpindle ==
  \E m \in {[dir |-> "CW", speed |-> 1000], [dir |-> "STOP", speed |-> 0],
            [dir |-> "CCW", speed |-> 1000]} :
     Commit(Settle([Cur EXCEPT !.manualSpindle = m]), "spindle")

Next ==
  \/ Tick
  \/ Play
  \/ Pause
  \/ Reset
  \/ EmergencyStop
  \/ handleConfirmTool
  \/ SetManualSpindle

Spec == Init /\ [][Next]_vars

\* Math.sqrt of a square distance, rounded down.
RECURSIVE SqrtBetween(_, _, _)
SqrtBetween(n, lo, hi) ==
  IF lo >= hi THEN lo
  ELSE LET mid == (lo + hi + 1) \div 2
       IN IF mid * mid <= n THEN SqrtBetween(n, mid, hi) ELSE SqrtBetween(n, lo, mid - 1)

ISqrt(n) == SqrtBetween(n, 0, IF n < 40000 THEN n ELSE 40000)

\* Distance (1/10 mm) from the position of the previous frame.
DistTraveled10(c) ==
  LET dx == c.simState.x - c.prevPos.x
      dz == c.simState.z - c.prevPos.z
  IN ISqrt(100 * (dx * dx + dz * dz))

IsCutting(c) ==
  /\ c.simState.spindleDirection # "STOP"
  /\ Len(c.simState.path) > 0
  /\ c.simState.path[Len(c.simState.path)].type = "cut"

IsMoving(c) == c.simState.x # c.prevPos.x \/ c.simState.z # c.prevPos.z

\* Wear calculation of one animation frame.
WearCalculation(c, r) ==
  IF /\ IsCutting(c) /\ IsMoving(c) /\ c.simState.x <= STOCK_DIAMETER + 1
     /\ c.simState.tool \in DOMAIN c.tools
     /\ c.tools[c.simState.tool].wear < WearFull
  THEN LET increment == (DistTraveled10(c) * Hardness10 * WearPerTenthMm) \div 10
           acc == r.accumWear + increment
       IN IF acc > WearThreshold
          THEN [r EXCEPT !.tools = updateToolWear(@, c.simState.tool,
                                                  c.tools[c.simState.tool].wear + acc),
                         !.accumWear = 0]
          ELSE [r EXCEPT !.accumWear = acc]
  ELSE r

\* One frame of the render and physics loop.
animate ==
  Commit(Settle([WearCalculation(Cur, Cur) EXCEPT
                   !.prevPos = [x |-> simState.x, z |-> simState.z]]), "frame")

\* Click on the WEAR read-out.
handleResetWear ==
  Commit(Settle([Cur EXCEPT !.tools = updateToolWear(@, simState.tool, 0)]), "resetwear")

WearNext == Next \/ animate \/ handleResetWear

\* The machine with its animation loop, loaded with a wear program.
WearInit == InitWith(WearPrograms)

WearSpec == WearInit /\ [][WearNext]_vars

\* The machine with its animation loop, loaded with a tool life program.
ToolLifeInit == InitWith(ToolLifePrograms)

ToolLifeSpec == ToolLifeInit /\ [][WearNext]_vars

\* The machine with its animation loop, loaded with a wear limit program.
WearLimitInit == InitWith(WearLimitPrograms)

WearLimitSpec == WearLimitInit /\ [][WearNext]_vars

\* The machine loaded with a modal program.
ModalInit == InitWith(ModalPrograms)

ModalSpec == ModalInit /\ [][Next]_vars

\* An unattended run of a program without unsupported G codes: the operator
\* presses Cycle Start once and from then on only confirms tool changes,
\* while the interval timer of the RUNNING state keeps firing.
RunPrograms ==
  {p \in Programs : \A l \in 1..Len(p) : p[l] # LineG999}

RunInit == InitWith(RunPrograms)

CycleStart == lastOp = "mount" /\ Play

RunNext == CycleStart \/ Tick \/ handleConfirmTool

RunSpec ==
  /\ RunInit
  /\ [][RunNext]_vars
  /\ WF_vars(CycleStart)
  /\ WF_vars(Tick)
  /\ WF_vars(handleConfirmTool)

\* The editor holds a text that has not been rendered yet; the render parses
\* it (const parsedCommands = parseGCode(code)).
ParserInit ==
  /\ code \in ParserTexts
  /\ commands = << >>
  /\ machineState = "IDLE"
  /\ currentLine = 0
  /\ errorMessage = NoError
  /\ manualSpindle = [dir |-> "STOP", speed |-> 1000]
  /\ tools = TOOLS
  /\ simState = IdleState([dir |-> "STOP", speed |-> 1000])
  /\ pendingToolChange = << >>
  /\ lastHandledToolLine = -1
  /\ prevPos = [x |-> HomeX, z |-> HomeZ]
  /\ accumWear = 0
  /\ lastOp = "edit"

Render ==
  /\ lastOp = "edit"
  /\ commands' = parseGCode(code)
  /\ lastOp' = "mount"
  /\ UNCHANGED <<code, machineState, currentLine, errorMessage, manualSpindle, tools,
                 simState, pendingToolChange, lastHandledToolLine, prevPos, accumWear>>

ParserSpec == ParserInit /\ [][Render]_vars

\* The same machine loaded with a turning program.
TurningInit == InitWith(TurningPrograms)

TurningSpec == TurningInit /\ [][Next]_vars

\* The effects have run to completion in every state between two steps, and
\* the command list is the parse of the program text.
Settled == Effects(Cur) = Cur /\ commands = parseGCode(code)

----------------------------------------------------------------------------
(* Properties *)

Min(a, b) == IF a < b THEN a ELSE b

Replaying == machineState \in {"RUNNING", "PAUSED"}

\* The supported set as the specification lists it.
SupportedG ==
  {0, 1, 2, 3, 4, 20, 21, 28, 32, 33, 40, 41, 42, 43, 44, 49, 50,
   70, 71, 72, 73, 74, 75, 76, 90, 91, 96, 97, 98, 99}

Unsupported(cmd) == cmd.type = "G" /\ "code" \in DOMAIN cmd /\ cmd.code \notin SupportedG

\* Indices (0-based) of the unsupported G statements at or before cursor k.
UnsupportedUpTo(k) ==
  {i \in 0..Min(k, Len(commands) - 1) : Unsupported(commands[i + 1])}

FirstUnsupported(k) ==
  CHOOSE i \in UnsupportedUpTo(k) : \A j \in UnsupportedUpTo(k) : i <= j

\* The source line l of the program text carries the word G<c>.
LineHasG(l, c) ==
  /\ l \in 1..Len(code)
  /\ \E n \in 1..Len(code[l]) : code[l][n] = Word("G", c)

\* C1: a step that leaves the machine replaying (not ALARM before, not IDLE
\* after, no emergency stop or reset) at a cursor at or past an unsupported
\* G statement ends in ALARM with the syntax error naming the first such
\* statement's code and its 1-based source line, and publishes no state.
C1_UnsupportedCodeHalts ==
  [][(/\ machineState # "ALARM"
      /\ lastOp' \notin {"estop", "reset"}
      /\ machineState' # "IDLE"
      /\ UnsupportedUpTo(currentLine') # {})
     => (/\ machineState' = "ALARM"
         /\ errorMessage'.kind = "syntax"
         /\ errorMessage'.code = commands[FirstUnsupported(currentLine') + 1].code
         /\ errorMessage'.line = commands[FirstUnsupported(currentLine') + 1].line
         /\ LineHasG(errorMessage'.line, errorMessage'.code)
         /\ simState' = simState)]_vars

\* C1 witness: the error of an unsupported statement whose index (2) is not
\* its source line minus one, with the cursor on it.
C1_Witness ==
  /\ machineState = "ALARM"
  /\ errorMessage = [kind |-> "syntax", code |-> 999, line |-> 2]
  /\ currentLine = 2
  /\ lastOp = "tick"

\* C2: a step in which a replay fails validation (the machine enters ALARM
\* with a syntax error) leaves the published state and path as they were.
C2_FailedReplayPublishesNothing ==
  [][(machineState # "ALARM" /\ machineState' = "ALARM" /\ errorMessage'.kind = "syntax")
     => simState' = simState]_vars

\* C2 witness: a replay failed after an earlier replay had published a
\* non-empty path, which is still the published one.
C2_Witness ==
  /\ machineState = "ALARM"
  /\ errorMessage.kind = "syntax"
  /\ currentLine > 0
  /\ simState.path # << >>

\* C3: in ALARM every step other than a reset keeps ALARM and the cursor.
C3_AlarmFreezes ==
  [][(machineState = "ALARM" /\ lastOp' # "reset")
     => (machineState' = "ALARM" /\ currentLine' = currentLine)]_vars

\* C3 witness: a tool-change confirmation was given while in ALARM.
C3_Witness ==
  /\ machineState = "ALARM"
  /\ lastOp = "confirm"
  /\ currentLine > 0

\* C4: after a reset the machine is IDLE at cursor 0 with no error message.
C4_ResetPostcondition ==
  lastOp = "reset" =>
    (machineState = "IDLE" /\ currentLine = 0 /\ errorMessage = [kind |-> "none"])

\* C4 witness: a reset has happened and the program has an unsupported code
\* at its first statement (so the reset left an ALARM or follows a replay
\* that cannot succeed).
C4_Witness ==
  /\ lastOp = "reset"
  /\ machineState = "IDLE"
  /\ UnsupportedUpTo(0) # {}

\* A step after which the published state is the replay of one more
\* statement than before it: the first statement out of IDLE, or the next
\* statement when the timer advances the cursor.
Advances ==
  /\ machineState' \in {"RUNNING", "PAUSED"}
  /\ currentLine' < Len(commands)
  /\ \/ machineState = "IDLE" /\ currentLine' = 0
     \/ machineState \in {"RUNNING", "PAUSED"} /\ currentLine' = currentLine + 1

\* The statement such a step replays.
Replayed == commands[currentLine' + 1]

IsG(cmd, c) == cmd.type = "G" /\ "code" \in DOMAIN cmd /\ cmd.code = c

Names(cmd, l) == l \in DOMAIN cmd.params

MoveG == {0, 1, 2, 3, 32, 33}

IsMove(cmd) == \E c \in MoveG : IsG(cmd, c)

MoveKind(cmd) == IF IsG(cmd, 0) THEN "rapid" ELSE "cut"

IsPrefix(p, q) == Len(p) <= Len(q) /\ SubSeq(q, 1, Len(p)) = p

\* The path a successful replay up to cursor k publishes.
PublishedPath(k) == Replay(commands, k, tools).temp.newPath

\* C5: replaying a G0/G1/G2/G3/G32/G33 statement appends exactly one point,
\* at the position reached by the statement, RAPID for G0 and CUT otherwise,
\* and the path length is the number of such statements up to the cursor.
C5_OnePointPerMove ==
  [][(Advances /\ IsMove(Replayed))
     => (/\ simState'.path =
              Append(simState.path,
                     [x |-> simState'.x, z |-> simState'.z, type |-> MoveKind(Replayed)])
         /\ Len(simState'.path) =
              Cardinality({j \in 0..currentLine' : IsMove(commands[j + 1])}))]_vars

\* C6: without unsupported codes, the path published for a cursor k is a
\* prefix of the path published for a later cursor, and strictly shorter
\* when a G0/G1/G2/G3/G32/G33 statement lies in between.
C6_PathPrefixMonotone ==
  (Replaying /\ UnsupportedUpTo(Len(commands)) = {}) =>
    \A k \in 0..(currentLine - 1) :
      /\ IsPrefix(PublishedPath(k), simState.path)
      /\ (\E j \in (k + 1)..currentLine : IsMove(commands[j + 1]))
            => Len(PublishedPath(k)) < Len(simState.path)

\* C7: U is added to X and W to Z in either positioning mode, after the X/Z
\* word of the same statement; G01 X40 U5 in absolute mode ends at X = 45.
C7_UWAlwaysIncremental ==
  [][Advances =>
     LET cmd == Replayed
         mode == simState'.positioningMode
         baseX == IF Names(cmd, "X")
                  THEN IF mode = "ABS" THEN cmd.params.X ELSE simState.x + cmd.params.X
                  ELSE simState.x
         baseZ == IF Names(cmd, "Z")
                  THEN IF mode = "ABS" THEN cmd.params.Z ELSE simState.z + cmd.params.Z
                  ELSE simState.z
     IN /\ Names(cmd, "U") => simState'.x = baseX + cmd.params.U
        /\ Names(cmd, "W") => simState'.z = baseZ + cmd.params.W
        /\ (/\ IsG(cmd, 1) /\ Names(cmd, "X") /\ Names(cmd, "U")
            /\ cmd.params.X = 40 /\ cmd.params.U = 5 /\ simState.positioningMode = "ABS")
           => simState'.x = 45]_vars

\* C7 witness: G01 X40 U5 W-2 was replayed in incremental mode from home
\* (100, 50), ending at X = 100 + 40 + 5 and Z = 50 - 2.
C7_Witness ==
  /\ Replaying
  /\ currentLine < Len(commands)
  /\ IsG(commands[currentLine + 1], 1)
  /\ Names(commands[currentLine + 1], "U")
  /\ simState.positioningMode = "INC"
  /\ simState.x = 145
  /\ simState.z = 48

\* C8: G90 makes X/Z set the axis, G91 (from the G91 statement itself on)
\* makes X/Z move the axis by the given amount; G90 G01 X50 Z-10 followed by
\* G91 X0 Z0 ends at (50, -10).
C8_PositioningModes ==
  [][Advances =>
     LET cmd == Replayed
         mode == IF IsG(cmd, 90) THEN "ABS"
                 ELSE IF IsG(cmd, 91) THEN "INC"
                 ELSE simState.positioningMode
     IN /\ simState'.positioningMode = mode
        /\ (Names(cmd, "X") /\ ~Names(cmd, "U"))
             => simState'.x = IF mode = "ABS" THEN cmd.params.X ELSE simState.x + cmd.params.X
        /\ (Names(cmd, "Z") /\ ~Names(cmd, "W"))
             => simState'.z = IF mode = "ABS" THEN cmd.params.Z ELSE simState.z + cmd.params.Z
        /\ (code = <<LineG90G01, LineG91>> /\ currentLine' = 2)
             => (simState'.x = 50 /\ simState'.z = -10)]_vars

\* C8 witness: the program G90 G01 X50 Z-10 / G91 X0 Z0 replayed to its end.
C8_Witness ==
  /\ Replaying
  /\ code = <<LineG90G01, LineG91>>
  /\ currentLine = 2
  /\ simState.positioningMode = "INC"
  /\ simState.x = 50
  /\ simState.z = -10

\* C9: G28 returns to home (100, 50) the axes it names (X/U for X, Z/W for
\* Z; both when it names none) and leaves the other axis where it was.
C9_G28SelectiveReturn ==
  [][(Advances /\ IsG(Replayed, 28)) =>
     LET cmd == Replayed
         namesX == Names(cmd, "X") \/ Names(cmd, "U")
         namesZ == Names(cmd, "Z") \/ Names(cmd, "W")
     IN /\ (namesX /\ ~namesZ) => (simState'.x = 100 /\ simState'.z = simState.z)
        /\ (namesZ /\ ~namesX) => (simState'.z = 50 /\ simState'.x = simState.x)
        /\ (~namesX /\ ~namesZ) => (simState'.x = 100 /\ simState'.z = 50)]_vars

\* C10: G28 appends two RAPID points, the nominal position before the home
\* return and then the position after it.
C10_G28TwoRapidPoints ==
  [][(Advances /\ IsG(Replayed, 28)) =>
     LET cmd == Replayed
         n == Len(simState.path)
         nomX == simState.x + (IF Names(cmd, "U") THEN cmd.params.U ELSE 0)
         nomZ == simState.z + (IF Names(cmd, "W") THEN cmd.params.W ELSE 0)
     IN /\ Len(simState'.path) = n + 2
        /\ SubSeq(simState'.path, 1, n) = simState.path
        /\ simState'.path[n + 1] = [x |-> nomX, z |-> nomZ, type |-> "rapid"]
        /\ simState'.path[n + 2] = [x |-> simState'.x, z |-> simState'.z, type |-> "rapid"]]_vars

\* C11: replaying the tool statement T0101 makes tool 1 the active tool, and
\* replaying T3 makes tool 3 the active tool.
C11_ToolStatementSelectsTool ==
  [][(Advances /\ Replayed.type = "T" /\ "code" \in DOMAIN Replayed)
     => (/\ Replayed.code = 101 => simState'.tool = 1
         /\ Replayed.code = 3 => simState'.tool = 3)]_vars

\* A step that appended one point to the published path.
Appended == Len(simState'.path) = Len(simState.path) + 1

LastPoint == simState'.path[Len(simState'.path)]

\* Nose radius (1/10 mm) of the tool the replay left active; 0 when the tool
\* table has no such tool.
ActiveNoseRadius10 ==
  IF simState'.tool \in DOMAIN tools THEN tools[simState'.tool].noseRadius ELSE 0

CompActive == simState'.toolRadiusComp \in {"LEFT", "RIGHT"}

\* The move of the step has no length.
ZeroLength == simState'.x = simState.x /\ simState'.z = simState.z

Sign(n) == IF n > 0 THEN 1 ELSE IF n < 0 THEN -1 ELSE 0

\* C12: a CUT point appended while G41/G42 is active with a nose radius
\* r > 0 carries the compensated point cx = x + nx*r*2, cz = z + nz*r, where
\* (tx, tz) is the unit tangent of the move from the previous nominal point
\* (X halved) and (nx, nz) = (tz, -tx) for RIGHT, (-tz, tx) for LEFT.  With
\* lengths in 1/10 mm, ox = cx - x and oz = cz - z, and the tangent taken
\* as (dx/len, dz/len), this is stated without the square root; with G42
\* and r = 0.8 the move (40, 0) -> (40, -20) gives (38.4, -20).
C12_CompensatedCutPoint ==
  [][(/\ Advances /\ Appended /\ IsMove(Replayed) /\ MoveKind(Replayed) = "cut"
      /\ CompActive /\ ActiveNoseRadius10 > 0 /\ ~ZeroLength)
     => LET pt == LastPoint
            r == ActiveNoseRadius10
            dz == simState'.z - simState.z
            dx2 == simState'.x - simState.x
            len2x4 == 4 * dz * dz + dx2 * dx2
            side == IF simState'.toolRadiusComp = "RIGHT" THEN 1 ELSE -1
        IN /\ "cx" \in DOMAIN pt /\ "cz" \in DOMAIN pt
           /\ LET ox == pt.cx - 10 * pt.x
                  oz == pt.cz - 10 * pt.z
              IN /\ ox * ox * len2x4 = 16 * r * r * dz * dz
                 /\ oz * oz * len2x4 = r * r * dx2 * dx2
                 /\ Sign(ox) = side * Sign(dz)
                 /\ Sign(oz) = -side * Sign(dx2)
           /\ (/\ simState'.toolRadiusComp = "RIGHT" /\ r = 8
               /\ simState.x = 40 /\ simState.z = 0
               /\ simState'.x = 40 /\ simState'.z = -20)
              => (pt.cx = 384 /\ pt.cz = -200)]_vars

\* C13: a point appended for a move of zero length, or while compensation
\* is OFF or the nose radius is 0, carries cx = x and cz = z (in 1/10 mm),
\* never an undefined value.
C13_UncompensatedPointIsNominal ==
  [][(/\ Advances /\ Appended
      /\ (ZeroLength \/ ~CompActive \/ ActiveNoseRadius10 = 0))
     => LET pt == LastPoint
        IN /\ "cx" \in DOMAIN pt /\ "cz" \in DOMAIN pt
           /\ pt.cx = 10 * pt.x
           /\ pt.cz = 10 * pt.z]_vars

\* C14: whenever the machine is IDLE the published state does not depend on
\* the program or the cursor: home (100, 50), empty path, tool 1, length
\* offset 0, compensation OFF, absolute positioning, coolant OFF, the manual
\* spindle direction, and the manual speed (0 when the manual direction is
\* STOP); with the manual spindle at CW/1000 it is CW and 1000.
C14_IdlePublishesManualState ==
  machineState = "IDLE" =>
    /\ simState.x = 100 /\ simState.z = 50
    /\ simState.path = << >>
    /\ simState.tool = 1
    /\ simState.activeToolOffset = 0
    /\ simState.toolRadiusComp = "OFF"
    /\ simState.positioningMode = "ABS"
    /\ simState.coolant = "OFF"
    /\ simState.spindleDirection = manualSpindle.dir
    /\ simState.spindleSpeed = (IF manualSpindle.dir = "STOP" THEN 0 ELSE manualSpindle.speed)
    /\ manualSpindle = [dir |-> "CW", speed |-> 1000]
         => (simState.spindleDirection = "CW" /\ simState.spindleSpeed = 1000)

\* C14 witness: the machine came back to IDLE at the end of a program that
\* moved the tool, the cursor still on a later statement, with the manual
\* spindle at CW/1000.
C14_Witness ==
  /\ machineState = "IDLE"
  /\ lastOp = "tick"
  /\ currentLine > 0
  /\ \E i \in 1..Len(commands) : IsMove(commands[i])
  /\ manualSpindle = [dir |-> "CW", speed |-> 1000]
  /\ simState.spindleDirection = "CW"
  /\ simState.spindleSpeed = 1000

\* C15: for a fixed program, tool table and cursor, the state and path
\* published by a successful replay (machine RUNNING or PAUSED) are the fold
\* of statements 0..cursor from the initial modal values, whatever cursor
\* positions, pauses, resets, tool-change prompts or wear updates came
\* before: they are a function of the program text, the tool table as
\* configured and the cursor alone.
C15_ReplayIgnoresHistory ==
  (Replaying /\ Len(commands) > 0) =>
    simState = NewState(Fold(parseGCode(code), 0, currentLine, InitialTemp, TOOLS).temp)

\* C15 witness: a replay published a state that uses the tool table (G43 H1)
\* while a tool change is prompted, after the cut was replayed in two runs
\* (wear of tool 1 recorded twice, so the program was reset or rewound).
C15_Witness ==
  /\ Replaying
  /\ tools[1].wear >= 4000
  /\ pendingToolChange # << >>
  /\ simState.activeToolOffset = 55
  /\ simState.path # << >>

\* The text has been parsed.
Parsed == lastOp # "edit"

IsCommandWord(w) == w.letter \in {"G", "M", "T"}

\* Positions of the command words of source line l.
CommandPositions(l) == {p \in 1..Len(code[l]) : IsCommandWord(code[l][p])}

\* Position of the j-th command word of source line l.
CommandPosition(l, j) ==
  CHOOSE p \in CommandPositions(l) :
    Cardinality({q \in CommandPositions(l) : q < p}) = j - 1

\* The command word a parameter word at position p of line l belongs to: the
\* nearest one to its left, or the first one of the line.
OwnerPosition(l, p) ==
  LET left == {q \in CommandPositions(l) : q < p}
  IN IF left # {} THEN CHOOSE q \in left : \A q2 \in left : q2 <= q
     ELSE CHOOSE q \in CommandPositions(l) : \A q2 \in CommandPositions(l) : q <= q2

\* Parameter words of line l that belong to its j-th command word.
OwnedWords(l, j) ==
  {code[l][p] : p \in {q \in 1..Len(code[l]) :
                         /\ ~IsCommandWord(code[l][q])
                         /\ OwnerPosition(l, q) = CommandPosition(l, j)}}

\* The statements carrying the line number l, in order.
StatementsOf(l) == SelectSeq(commands, LAMBDA c : c.line = l)

\* C16: a source line with k >= 1 command words (G, M, T) yields exactly k
\* statements, in the left-to-right order of its command words, all with
\* that line's 1-based number; each parameter word is attached to the
\* nearest command word to its left, or to the first command word when none
\* precedes it; G01 X10 M03 yields G1 with X = 10, then M3 without
\* parameters.
C16_OneStatementPerCommandWord ==
  Parsed =>
    \A l \in 1..Len(code) :
      LET k == Cardinality(CommandPositions(l))
          st == StatementsOf(l)
      IN k >= 1 =>
           /\ Len(st) = k
           /\ \A j \in 1..k :
                 LET w == code[l][CommandPosition(l, j)]
                     own == OwnedWords(l, j)
                 IN /\ st[j].type = w.letter
                    /\ "code" \in DOMAIN st[j] /\ st[j].code = w.value
                    /\ st[j].line = l
                    /\ DOMAIN st[j].params = {pw.letter : pw \in own}
                    /\ \A a \in DOMAIN st[j].params :
                          \E pw \in own : pw.letter = a /\ pw.value = st[j].params[a]
           /\ code[l] = <<Word("G", 1), Word("X", 10), Word("M", 3)>>
                => /\ st[1].type = "G" /\ st[1].code = 1
                   /\ DOMAIN st[1].params = {"X"} /\ st[1].params.X = 10
                   /\ st[2].type = "M" /\ st[2].code = 3
                   /\ DOMAIN st[2].params = {}

\* C16 witness: the text of a blank line followed by X20 G01 M03 was parsed
\* into G1 with X = 20 (the parameter precedes every command word) and M3,
\* both with line number 2.
C16_Witness ==
  /\ Parsed
  /\ code = <<LineComment, <<Word("X", 20), Word("G", 1), Word("M", 3)>>>>
  /\ Len(commands) = 2
  /\ commands[1].type = "G" /\ commands[1].params.X = 20 /\ commands[1].line = 2
  /\ commands[2].type = "M" /\ commands[2].line = 2

\* C17: blank and comment-only lines yield no statement but count for the
\* numbering: every statement carries the 1-based index, in the raw text,
\* of the line it was read from, and the line numbers never decrease along
\* the statement list.
C17_LineNumbersCountBlankLines ==
  Parsed =>
    /\ \A l \in 1..Len(code) :
         /\ code[l] = << >> => StatementsOf(l) = << >>
         /\ code[l] # << >> =>
              /\ StatementsOf(l) # << >>
              /\ \A j \in 1..Len(StatementsOf(l)) :
                   LET c == StatementsOf(l)[j]
                   IN /\ "code" \in DOMAIN c =>
                           \E p \in 1..Len(code[l]) : code[l][p] = Word(c.type, c.code)
                      /\ \A a \in DOMAIN c.params :
                           \E p \in 1..Len(code[l]) : code[l][p] = Word(a, c.params[a])
    /\ \A i \in 1..Len(commands) : commands[i].line \in 1..Len(code)
    /\ \A i \in 1..Len(commands) : \A j \in i..Len(commands) :
         commands[i].line <= commands[j].line

\* C17 witness: a blank line followed by a line of three command words: the
\* three statements carry the line number 2, the index of their line in the
\* text, not 1, its index among the lines that are not blank.
C17_Witness ==
  /\ Parsed
  /\ code = <<LineComment, <<Word("G", 1), Word("M", 3), Word("T", 101)>>>>
  /\ Len(commands) = 3
  /\ commands[1].line = 2
  /\ commands[2].line = 2
  /\ commands[3].line = 2

\* The statement at index k is a tool statement.
AtToolStatement(k) == k < Len(commands) /\ commands[k + 1].type = "T"

\* A step that sets the machine running at the cursor currentLine': Play or
\* a confirmation out of IDLE or PAUSED, or the timer advancing the cursor.
EntersRun ==
  \/ lastOp' \in {"play", "confirm"} /\ machineState \in {"IDLE", "PAUSED"}
  \/ lastOp' = "tick" /\ currentLine' = currentLine + 1

\* The index currentLine' was handled, and since then the machine has not
\* been IDLE and the cursor has not moved to a smaller index.
HandledBefore == machineState # "IDLE" /\ lastHandledToolLine = currentLine'

\* C18: when the machine runs at a tool statement whose index has not been
\* handled, a pause is requested and the pending tool change recorded; an
\* index that was handled requests no pause again until the machine has
\* been IDLE or the cursor has moved to a smaller index; and a tool change
\* becomes pending in no other way.
C18_ToolChangePromptedOnce ==
  [][/\ (EntersRun /\ AtToolStatement(currentLine') /\ ~HandledBefore)
        => (/\ pendingToolChange' = <<commands[currentLine' + 1]>>
            /\ lastHandledToolLine' = currentLine'
            /\ machineState' \in {"PAUSED", "ALARM"})
     /\ (EntersRun /\ AtToolStatement(currentLine') /\ HandledBefore)
        => (/\ machineState' = "RUNNING"
            /\ pendingToolChange' \in {pendingToolChange, << >>}
            /\ lastHandledToolLine' = currentLine')
     /\ (pendingToolChange' # << >> /\ pendingToolChange' # pendingToolChange)
        => (EntersRun /\ AtToolStatement(currentLine') /\ ~HandledBefore)
     /\ (machineState' = "RUNNING" /\ AtToolStatement(currentLine'))
        => lastHandledToolLine' = currentLine']_vars

\* C18 witness: a tool statement was prompted and confirmed, the machine
\* was paused on it and started again, and runs on it without a new prompt.
C18_Witness ==
  /\ machineState = "RUNNING"
  /\ lastOp = "play"
  /\ AtToolStatement(currentLine)
  /\ currentLine < Len(commands) - 1
  /\ lastHandledToolLine = currentLine
  /\ pendingToolChange = << >>

\* C19: while a tool-change confirmation is pending the machine is never
\* RUNNING and the cursor does not advance; the cursor moves past the tool
\* statement only after the confirmation.
C19_PendingToolChangeHolds ==
  [][/\ pendingToolChange' # << >> => machineState' # "RUNNING"
     /\ (pendingToolChange # << >> /\ lastOp' # "confirm")
        => currentLine' <= currentLine]_vars

\* C20: confirming a pending tool change, in the PAUSED state the prompt
\* left the machine in, sets the machine RUNNING and leaves the cursor at the
\* index of the tool statement: it neither rewinds nor skips.
C20_ConfirmResumesInPlace ==
  [][(lastOp' = "confirm" /\ machineState = "PAUSED")
     => (/\ machineState' \in {"RUNNING", "PAUSED"}
         /\ currentLine' = currentLine
         /\ pendingToolChange' = << >>
         /\ machineState' = "RUNNING")]_vars

\* The statement at index k is M100.
AtM100(k) ==
  /\ k < Len(commands)
  /\ commands[k + 1].type = "M"
  /\ "code" \in DOMAIN commands[k + 1]
  /\ commands[k + 1].code = 100

\* C21: when the machine is RUNNING on an M100 statement, the wear of the
\* tool active at that cursor (the tool of the fold of statements 0..cursor,
\* which is the published one) is 0, and the step changed no other tool.
C21_M100ResetsActiveToolOnly ==
  [][(machineState' = "RUNNING" /\ AtM100(currentLine'))
     => (/\ simState'.tool \in DOMAIN tools' => tools'[simState'.tool].wear = 0
         /\ \A id \in DOMAIN tools : id # simState'.tool => tools'[id] = tools[id])]_vars

\* C22: after every step every tool's wear is within [0, 100] percent (in
\* 1/100 %), the tool table keeps its tools and their length offsets and
\* nose radii, and a wear update made by an animation frame or by the manual
\* wear reset, which is for the published tool, changes no other tool.
C22_WearWithinLimits ==
  [][/\ DOMAIN tools' = {1, 2, 3}
     /\ \A id \in DOMAIN tools' :
          /\ tools'[id].wear >= 0 /\ tools'[id].wear <= 100 * 100
          /\ tools'[id].lengthOffset = tools[id].lengthOffset
          /\ tools'[id].noseRadius = tools[id].noseRadius
     /\ lastOp' \in {"frame", "resetwear"}
          => \A id \in DOMAIN tools : id # simState.tool => tools'[id] = tools[id]]_vars

\* C22 witness: an animation frame added the wear of a cut (34.16 %) to
\* tool 1 for the third time, and the tool stands at 100 %, the others at 0.
C22_Witness ==
  /\ lastOp = "frame"
  /\ simState.tool = 1
  /\ tools[1].wear = 100 * 100
  /\ tools[2].wear = 0 /\ tools[3].wear = 0
  /\ accumWear = 0

\* The number formed by the first two decimal digits of c >= 10.
TwoDigitPrefix(c) ==
  CHOOSE p \in 10..99 : \E d \in {1, 10, 100, 1000, 10000, 100000} : c \div d = p

Max(S) == CHOOSE m \in S : \A n \in S : n <= m

\* Indices (1-based) of the statements at or before cursor k that carry an S
\* word and are not G50.
SpeedSetters(k) ==
  {i \in 1..Min(k + 1, Len(commands)) :
     Names(commands[i], "S") /\ ~IsG(commands[i], 50)}

\* C24: the spindle speed published for cursor k is the S word of the last
\* statement at or before k that carries one and is not G50, and 0 when
\* there is none; the S word of a G50 statement leaves the speed unchanged.
C24_SpeedIsLastSWord ==
  (Replaying /\ currentLine < Len(commands)) =>
    simState.spindleSpeed =
      (IF SpeedSetters(currentLine) = {} THEN 0
       ELSE commands[Max(SpeedSetters(currentLine))].params.S)

\* C24 witness: G50 S2000 was replayed after M03 S500 and the speed is 500.
C24_Witness ==
  /\ Replaying
  /\ currentLine = 1
  /\ Names(commands[1], "S") /\ commands[1].params.S = 500
  /\ IsG(commands[2], 50) /\ Names(commands[2], "S") /\ commands[2].params.S = 2000
  /\ simState.spindleSpeed = 500

\* Length offsets of the tool table as the specification lists them, in
\* 1/10 mm.
TableLengthOffset10 == (1 :> 55) @@ (2 :> 30) @@ (3 :> 82)

\* Indices (1-based) of the statements at or before cursor k that are G49 or
\* G43 with an H word naming a tool of the table.
OffsetSetters(k) ==
  {i \in 1..Min(k + 1, Len(commands)) :
     \/ IsG(commands[i], 49)
     \/ /\ IsG(commands[i], 43) /\ Names(commands[i], "H")
        /\ commands[i].params.H \in DOMAIN TableLengthOffset10}

\* C25: G43 with an H word naming a tool of the table sets the tool length
\* offset to that tool's length offset, G49 sets it to 0, and no other
\* statement (G43 without H or with an unmatched H included) changes it: the
\* published offset is that of the last such statement, and 0 without one.
C25_LengthOffsetFollowsG43G49 ==
  Replaying =>
    simState.activeToolOffset =
      (IF OffsetSetters(currentLine) = {} THEN 0
       ELSE LET cmd == commands[Max(OffsetSetters(currentLine))]
            IN IF IsG(cmd, 49) THEN 0 ELSE TableLengthOffset10[cmd.params.H])

\* C25 witness: G43 H3 was replayed, then G43 without H and G43 H9, and the
\* offset is still the 8.2 mm of tool 3.
C25_Witness ==
  /\ Replaying
  /\ currentLine = 2
  /\ IsG(commands[1], 43) /\ Names(commands[1], "H") /\ commands[1].params.H = 3
  /\ IsG(commands[2], 43) /\ ~Names(commands[2], "H")
  /\ IsG(commands[3], 43) /\ Names(commands[3], "H") /\ commands[3].params.H = 9
  /\ simState.activeToolOffset = 82

CycleG == {71, 72, 74, 75, 76}

\* C26: replaying a G71, G72, G74, G75 or G76 statement appends no point to
\* the path.
C26_CyclesAppendNoPoint ==
  [][(Advances /\ \E c \in CycleG : IsG(Replayed, c))
     => simState'.path = simState.path]_vars

\* C26 witness: G71 was replayed after a cutting move and the path still has
\* the one point of the move.
C26_Witness ==
  /\ Replaying
  /\ currentLine = 1
  /\ IsG(commands[1], 1)
  /\ IsG(commands[2], 71)
  /\ Len(simState.path) = 1

\* C27: after every successful replay the published position is the last
\* point of the published path, or home when the path is empty (so a
\* statement that appends no point never changes the position).
C27_PositionIsLastPathPoint ==
  (Replaying /\ currentLine < Len(commands)) =>
    IF simState.path = << >>
    THEN simState.x = HomeX /\ simState.z = HomeZ
    ELSE /\ simState.x = simState.path[Len(simState.path)].x
         /\ simState.z = simState.path[Len(simState.path)].z

\* C28: a run of a program with at least one statement and no unsupported
\* G code, started by Cycle Start, with every tool change confirmed and no
\* other input, eventually ends IDLE with the cursor on the last statement.
C28_RunTerminates ==
  Len(commands) = 0
  \/ <>(machineState = "IDLE" /\ lastOp = "tick" /\ currentLine = Len(commands) - 1)

\* The position a successful replay up to cursor k publishes.
PublishedPosition(k) ==
  LET t == Replay(commands, k, tools).temp IN [x |-> t.tempX, z |-> t.tempZ]

WearGrew ==
  \/ accumWear' > accumWear
  \/ \E id \in DOMAIN tools : tools'[id].wear > tools[id].wear

CuttingG == {1, 2, 3, 32, 33}

\* C29: wear grows only for cutting moves: an animation frame that covers
\* the position change of one statement (the previous frame ended where the
\* statement before it left the tool) adds wear only if that statement is a
\* cutting move G1/G2/G3/G32/G33, never for a rapid G0 or a statement that
\* appends no CUT point.
C29_WearOnlyOnCuttingMoves ==
  [][(/\ lastOp' = "frame"
      /\ Replaying
      /\ currentLine \in 1..(Len(commands) - 1)
      /\ prevPos = PublishedPosition(currentLine - 1)
      /\ WearGrew)
     => \E c \in CuttingG : IsG(commands[currentLine + 1], c)]_vars

\* C30: whenever the machine is in ALARM (after a validation error or an
\* emergency stop) the published state shows the spindle stopped: direction
\* STOP and speed 0.
C30_AlarmShowsSpindleStopped ==
  machineState = "ALARM" =>
    (simState.spindleDirection = "STOP" /\ simState.spindleSpeed = 0)

====
